---- MODULE Spec2Model ----
(***************************************************************************)
(* Model of the contact form's client-side rate limiter                    *)
(* (src/utils/rateLimiter.ts), of the Turnstile widget component and of    *)
(* ContactForm.onSubmit (src/components/Turnstile.tsx).                    *)
(* Times are milliseconds, as returned by Date.now().                      *)
(***************************************************************************)
EXTENDS Integers, Sequences, FiniteSets, TLC

\* ------------------------------------------------------------------------
\* Bounds of the model
\* ------------------------------------------------------------------------
\* number of later instants, one every 61 s, at which the clock is observed
MaxWindows == 2

\* the instants (ms) of the first minute at which the clock is observed
Offsets == {0, 1000, 2000, 2500, 3000, 60000}

\* calls since a reset are counted up to MaxCounted + 1 ("more")
MaxCounted == 4

\* Turnstile instances mounted during the page's life
MaxInstances == 2

\* script elements created during the page's life
MaxScripts == 3

\* distinct tokens the widget issues
MaxTokens == 2

\* invocations of onError that are counted
MaxErrors == 2

\* distance between two later instants: one full window plus one second
Stride == (60 * 1000) + 1000

\* the instants Date.now() can return in the model
Instants == Offsets \cup {w * Stride : w \in 1..MaxWindows}

\* ------------------------------------------------------------------------
\* rateLimiter.ts
\* ------------------------------------------------------------------------
WINDOW_MS == 60 * 1000

MAX_REQUESTS == 3

\* the identifiers checkRateLimit is called with
Identifiers == {"X", "Y"}

\* rateLimitMap.get(identifier) of an identifier that was never stored
NoEntry == [count |-> 0, firstRequest |-> -1]

\* the retryAfter field of a result that has none
Undefined == -1

\* Math.floor in the place of Math.ceil
Ceil_floor(x, d) == x \div d

\* Math.ceil(x / d) on integers
Ceil(x, d) == -((-x) \div d)

\* the expiry test with the window taken in seconds and the clock in ms
Expired_unitSlip(entry, t) == (t - entry.firstRequest) > WINDOW_MS * 1000

\* the expiry test of checkRateLimit
Expired(entry, t) == (t - entry.firstRequest) > WINDOW_MS

\* the retryAfter of a rejected request
RetryAfter(entry, t) == Ceil(WINDOW_MS - (t - entry.firstRequest), 1000)

\* checkRateLimit whose reset restarts the window but keeps the old count
checkRateLimit_keepsCount(m, identifier, t) ==
    LET entry == m[identifier] IN
    IF entry = NoEntry
    THEN [map |-> [m EXCEPT ![identifier] = [count |-> 1, firstRequest |-> t]],
          allowed |-> TRUE, retryAfter |-> Undefined]
    ELSE IF Expired(entry, t)
    THEN [map |-> [m EXCEPT ![identifier].firstRequest = t],
          allowed |-> TRUE, retryAfter |-> Undefined]
    ELSE IF entry.count >= MAX_REQUESTS
    THEN [map |-> m, allowed |-> FALSE, retryAfter |-> RetryAfter(entry, t)]
    ELSE [map |-> [m EXCEPT ![identifier].count = entry.count + 1],
          allowed |-> TRUE, retryAfter |-> Undefined]

\* checkRateLimit with > in the place of >= in the test of the count
checkRateLimit_offByOne(m, identifier, t) ==
    LET entry == m[identifier] IN
    IF entry = NoEntry \/ Expired(entry, t)
    THEN [map |-> [m EXCEPT ![identifier] = [count |-> 1, firstRequest |-> t]],
          allowed |-> TRUE, retryAfter |-> Undefined]
    ELSE IF entry.count > MAX_REQUESTS
    THEN [map |-> m, allowed |-> FALSE, retryAfter |-> RetryAfter(entry, t)]
    ELSE [map |-> [m EXCEPT ![identifier].count = entry.count + 1],
          allowed |-> TRUE, retryAfter |-> Undefined]

\* checkRateLimit(identifier) at Date.now() = t on the map m:
\* the returned object and the map afterwards
checkRateLimit(m, identifier, t) ==
    LET entry == m[identifier] IN
    IF entry = NoEntry \/ Expired(entry, t)
    THEN [map |-> [m EXCEPT ![identifier] = [count |-> 1, firstRequest |-> t]],
          allowed |-> TRUE, retryAfter |-> Undefined]
    ELSE IF entry.count >= MAX_REQUESTS
    THEN [map |-> m, allowed |-> FALSE, retryAfter |-> RetryAfter(entry, t)]
    ELSE [map |-> [m EXCEPT ![identifier].count = entry.count + 1],
          allowed |-> TRUE, retryAfter |-> Undefined]

\* ------------------------------------------------------------------------
\* State
\* ------------------------------------------------------------------------
VARIABLES
    now,            \* the value Date.now() returns
    rateLimitMap,   \* identifier -> entry (NoEntry when absent)
    lastCheck,      \* the last checkRateLimit call: identifier, time, result
    recent,         \* identifier -> times of its last calls (at most MAX_REQUESTS)
    sinceReset,     \* identifier -> calls since its entry was last replaced
    env,            \* import.meta.env: which values are configured
    status,         \* Turnstile instance -> "unborn", "mounted", "unmounted"
    containerRef,   \* instance -> containerRef.current is an element
    widgetIdRef,    \* instance -> widgetIdRef.current (NoWidget when null)
    effectScript,   \* instance -> the script its current effect created (0: none)
    scripts,        \* the script elements created so far, in creation order
    windowTurnstile,\* window.turnstile is defined
    widgets,        \* the window.turnstile.render calls so far: the handles
    onErrorCalls,   \* number of invocations of the onError callback
    isSubmitting, submitSuccess, submitError, errorMessage, turnstileToken,
    inflight,       \* the fetch awaited by onSubmit (NoPost when none)
    lastSubmit      \* what the last onSubmit call found and did

limiterVars == <<now, rateLimitMap, lastCheck, recent, sinceReset>>

widgetVars == <<status, containerRef, widgetIdRef, effectScript, scripts,
                windowTurnstile, widgets>>

formVars == <<isSubmitting, submitSuccess, submitError, errorMessage,
              turnstileToken, inflight, lastSubmit>>

vars == <<now, rateLimitMap, lastCheck, recent, sinceReset, env, status,
          containerRef, widgetIdRef, effectScript, scripts, windowTurnstile,
          widgets, onErrorCalls, isSubmitting, submitSuccess, submitError,
          errorMessage, turnstileToken, inflight, lastSubmit>>

\* the Turnstile component instances: each mount creates the next one
Instances == 1..MaxInstances

\* the tokens a widget can issue
Tokens == 1..MaxTokens

\* turnstileToken = null
NoToken == 0

\* widgetIdRef.current = null
NoWidget == 0

\* the script element an effect run creates, appended to document.head
NewScript(i) ==
    [owner |-> i, inHead |-> TRUE, state |-> "pending", ownerAtLoad |-> ""]

\* the effect's cleanup: the script is removed from document.head if it is there
Cleanup(ss, s) ==
    IF s # 0 /\ ss[s].inHead THEN [ss EXCEPT ![s].inHead = FALSE] ELSE ss

\* the values of errorMessage
Message(kind) == [kind |-> kind, retryAfter |-> Undefined]

\* errorMessage = null
NoMessage == Message("none")

\* no fetch is awaited
NoPost == [pending |-> FALSE, token |-> NoToken]

\* lastSubmit before any submit
NoSubmit == [called |-> FALSE, at |-> -1, allowed |-> FALSE, token |-> NoToken,
             posted |-> FALSE, sent |-> NoToken, error |-> NoMessage,
             response |-> "none", previous |-> "none", successBefore |-> FALSE]

\* lastCheck before any call
NoCheck == [id |-> "", at |-> -1, allowed |-> TRUE, retryAfter |-> Undefined,
            before |-> NoEntry, third |-> -1]

\* the call times s followed by t, keeping the last MAX_REQUESTS of them
Remember(s, t) ==
    IF Len(s) < MAX_REQUESTS THEN Append(s, t) ELSE Append(Tail(s), t)

\* time of the call made MAX_REQUESTS calls before the next one (-1 if none)
ThirdLast(s) == IF Len(s) = MAX_REQUESTS THEN Head(s) ELSE -1

\* the module state of rateLimiter.ts when the page is loaded
InitMap ==
    /\ now = 0
    /\ rateLimitMap = [i \in Identifiers |-> NoEntry]
    /\ lastCheck = NoCheck
    /\ recent = [i \in Identifiers |-> << >>]
    /\ sinceReset = [i \in Identifiers |-> 0]

\* the clock advances between two events (it never goes back)
Tick ==
    /\ \E t \in Instants : t > now /\ now' = t
    /\ UNCHANGED <<rateLimitMap, lastCheck, recent, sinceReset>>
    /\ UNCHANGED <<env, widgetVars, onErrorCalls, formVars>>

\* one call checkRateLimit(identifier): the map and the record of the call
LimiterCall(identifier) ==
    LET r == checkRateLimit(rateLimitMap, identifier, now)
        replaced == r.map[identifier].firstRequest
                        # rateLimitMap[identifier].firstRequest
    IN
    /\ rateLimitMap' = r.map
    /\ lastCheck' = [id |-> identifier, at |-> now, allowed |-> r.allowed,
                     retryAfter |-> r.retryAfter,
                     before |-> rateLimitMap[identifier],
                     third |-> ThirdLast(recent[identifier])]
    /\ recent' = [recent EXCEPT ![identifier] = Remember(@, now)]
    /\ sinceReset' = [sinceReset EXCEPT ![identifier] =
                        IF replaced THEN 1
                        ELSE IF @ <= MaxCounted THEN @ + 1 ELSE @]
    /\ UNCHANGED now

\* a caller invokes checkRateLimit(identifier)
CheckRateLimit(identifier) ==
    /\ LimiterCall(identifier)
    /\ UNCHANGED <<env, widgetVars, onErrorCalls, formVars>>

NextLimiter ==
    \/ Tick
    \/ \E identifier \in Identifiers : CheckRateLimit(identifier)

\* ------------------------------------------------------------------------
\* Turnstile.tsx: the Turnstile component
\* ------------------------------------------------------------------------
Mount(i) ==
    /\ status[i] = "unborn"
    /\ \A j \in Instances : j < i => status[j] # "unborn"
    /\ status' = [status EXCEPT ![i] = "mounted"]
    /\ widgetIdRef' = [widgetIdRef EXCEPT ![i] = NoWidget]
    /\ IF env.siteKey
       THEN /\ Len(scripts) < MaxScripts
            /\ containerRef' = [containerRef EXCEPT ![i] = TRUE]
            /\ scripts' = Append(scripts, NewScript(i))
            /\ effectScript' = [effectScript EXCEPT ![i] = Len(scripts) + 1]
       ELSE /\ containerRef' = [containerRef EXCEPT ![i] = FALSE]
            /\ UNCHANGED <<scripts, effectScript>>
    /\ UNCHANGED <<windowTurnstile, widgets, onErrorCalls>>
    /\ UNCHANGED <<env, limiterVars, formVars>>

\* the parent renders again and passes new onVerify / onError functions:
\* the effect's cleanup runs, then the effect
EffectRerun(i) ==
    /\ status[i] = "mounted"
    /\ env.siteKey
    /\ Len(scripts) < MaxScripts
    /\ scripts' = Append(Cleanup(scripts, effectScript[i]), NewScript(i))
    /\ effectScript' = [effectScript EXCEPT ![i] = Len(scripts) + 1]
    /\ UNCHANGED <<status, containerRef, widgetIdRef, windowTurnstile, widgets,
                   onErrorCalls>>
    /\ UNCHANGED <<env, limiterVars, formVars>>

\* the component is removed: React clears the ref of the div and runs the
\* effect's cleanup
Unmount(i) ==
    /\ status[i] = "mounted"
    /\ status' = [status EXCEPT ![i] = "unmounted"]
    /\ containerRef' = [containerRef EXCEPT ![i] = FALSE]
    /\ scripts' = Cleanup(scripts, effectScript[i])
    /\ effectScript' = [effectScript EXCEPT ![i] = 0]
    /\ UNCHANGED <<widgetIdRef, windowTurnstile, widgets, onErrorCalls>>
    /\ UNCHANGED <<env, limiterVars, formVars>>

\* script.onload without the test of containerRef.current
ScriptLoad_noContainerCheck(s) ==
    /\ s \in 1..Len(scripts)
    /\ scripts[s].state = "pending"
    /\ scripts' = [scripts EXCEPT ![s].state = "loaded",
                                  ![s].ownerAtLoad = status[scripts[s].owner]]
    /\ windowTurnstile' = TRUE
    /\ widgets' = Append(widgets, [owner |-> scripts[s].owner, script |-> s])
    /\ widgetIdRef' = [widgetIdRef EXCEPT ![scripts[s].owner] = Len(widgets) + 1]
    /\ UNCHANGED <<status, containerRef, effectScript, onErrorCalls>>
    /\ UNCHANGED <<env, limiterVars, formVars>>

\* the browser has fetched and run script s (which defines
\* window.turnstile) and fires its load event: script.onload
ScriptLoad(s) ==
    /\ s \in 1..Len(scripts)
    /\ scripts[s].state = "pending"
    /\ scripts' = [scripts EXCEPT ![s].state = "loaded",
                                  ![s].ownerAtLoad = status[scripts[s].owner]]
    /\ windowTurnstile' = TRUE
    /\ IF containerRef[scripts[s].owner] /\ windowTurnstile'
       THEN /\ widgets' = Append(widgets,
                                 [owner |-> scripts[s].owner, script |-> s])
            /\ widgetIdRef' = [widgetIdRef EXCEPT
                                  ![scripts[s].owner] = Len(widgets) + 1]
       ELSE UNCHANGED <<widgets, widgetIdRef>>
    /\ UNCHANGED <<status, containerRef, effectScript, onErrorCalls>>
    /\ UNCHANGED <<env, limiterVars, formVars>>

\* the browser fails to fetch script s and fires its error event: the
\* component sets no script.onerror
ScriptError(s) ==
    /\ s \in 1..Len(scripts)
    /\ scripts[s].state = "pending"
    /\ scripts' = [scripts EXCEPT ![s].state = "failed"]
    /\ UNCHANGED <<status, containerRef, widgetIdRef, effectScript,
                   windowTurnstile, widgets, onErrorCalls>>
    /\ UNCHANGED <<env, limiterVars, formVars>>

\* widget w calls its callback option with a token: handleTurnstileVerify
WidgetVerify(w, token) ==
    /\ w \in 1..Len(widgets)
    /\ turnstileToken' = token
    /\ UNCHANGED <<isSubmitting, submitSuccess, submitError, errorMessage,
                   inflight, lastSubmit>>
    /\ UNCHANGED <<env, limiterVars, widgetVars, onErrorCalls>>

\* widget w calls its error-callback option: handleTurnstileError
WidgetError(w) ==
    /\ w \in 1..Len(widgets)
    /\ onErrorCalls < MaxErrors
    /\ onErrorCalls' = onErrorCalls + 1
    /\ errorMessage' = Message("widget")
    /\ submitError' = TRUE
    /\ UNCHANGED <<isSubmitting, submitSuccess, turnstileToken, inflight,
                   lastSubmit>>
    /\ UNCHANGED <<env, limiterVars, widgetVars>>

\* the page before any Turnstile is mounted
InitWidgets ==
    /\ status = [i \in Instances |-> "unborn"]
    /\ containerRef = [i \in Instances |-> FALSE]
    /\ widgetIdRef = [i \in Instances |-> NoWidget]
    /\ effectScript = [i \in Instances |-> 0]
    /\ scripts = << >>
    /\ windowTurnstile = FALSE
    /\ widgets = << >>
    /\ onErrorCalls = 0

\* ContactForm's useState initial values
InitFormState ==
    /\ isSubmitting = FALSE
    /\ submitSuccess = FALSE
    /\ submitError = FALSE
    /\ errorMessage = NoMessage
    /\ turnstileToken = NoToken
    /\ inflight = NoPost
    /\ lastSubmit = NoSubmit

\* ------------------------------------------------------------------------
\* Turnstile.tsx: ContactForm.onSubmit
\* ------------------------------------------------------------------------
\* getClientIdentifier(): the fingerprint of this browser
ClientId == "X"

\* the token test applied whether or not a site key is configured
TokenMissing_alwaysRequired(siteKey, token) == token = NoToken

\* turnstileSiteKey && !turnstileToken
TokenMissing(siteKey, token) == siteKey /\ token = NoToken

\* the configuration test with && in the place of ||
ConfigMissing_both(url, secret) == ~url /\ ~secret

\* !WEBHOOK_CONFIG.url || !WEBHOOK_CONFIG.secret
ConfigMissing(url, secret) == ~url \/ ~secret

\* the gates with the token tested before the limiter's answer
Gate_tokenFirst(allowed, siteKey, token, url, secret) ==
    IF TokenMissing(siteKey, token) THEN "verification"
    ELSE IF ~allowed THEN "rate"
    ELSE IF ConfigMissing(url, secret) THEN "config"
    ELSE "post"

\* the early returns of onSubmit, in their order: the gate that stops the
\* submit, or "post" when it reaches the fetch
Gate(allowed, siteKey, token, url, secret) ==
    IF ~allowed THEN "rate"
    ELSE IF TokenMissing(siteKey, token) THEN "verification"
    ELSE IF ConfigMissing(url, secret) THEN "config"
    ELSE "post"

\* onSubmit with the limiter's count committed only when the submit reaches
\* the fetch
OnSubmit_countsPostsOnly ==
    LET r == checkRateLimit(rateLimitMap, ClientId, now)
        gate == Gate(r.allowed, env.siteKey, turnstileToken, env.url, env.secret)
        message == IF gate = "rate"
                   THEN [kind |-> "rate", retryAfter |-> r.retryAfter]
                   ELSE Message(gate)
    IN
    /\ ~isSubmitting
    /\ IF gate = "post"
       THEN /\ LimiterCall(ClientId)
            /\ isSubmitting' = TRUE
            /\ submitError' = FALSE
            /\ submitSuccess' = FALSE
            /\ errorMessage' = NoMessage
            /\ inflight' = [pending |-> TRUE, token |-> turnstileToken]
       ELSE /\ lastCheck' = [id |-> ClientId, at |-> now, allowed |-> r.allowed,
                             retryAfter |-> r.retryAfter,
                             before |-> rateLimitMap[ClientId],
                             third |-> ThirdLast(recent[ClientId])]
            /\ errorMessage' = message
            /\ submitError' = TRUE
            /\ UNCHANGED <<now, rateLimitMap, recent, sinceReset>>
            /\ UNCHANGED <<isSubmitting, submitSuccess, inflight>>
    /\ lastSubmit' = [called |-> TRUE, at |-> now, allowed |-> r.allowed,
                      token |-> turnstileToken,
                      posted |-> inflight'.pending,
                      sent |-> inflight'.token,
                      error |-> IF gate = "post" THEN NoMessage ELSE message,
                      response |-> IF gate = "post" THEN "pending" ELSE "none",
                      previous |-> lastSubmit.response,
                      successBefore |-> submitSuccess]
    /\ UNCHANGED turnstileToken
    /\ UNCHANGED <<env, widgetVars, onErrorCalls>>

\* the user submits a valid form (the button is disabled while isSubmitting):
\* onSubmit up to its return or to the await of fetch
OnSubmit ==
    LET r == checkRateLimit(rateLimitMap, ClientId, now)
        gate == Gate(r.allowed, env.siteKey, turnstileToken, env.url, env.secret)
        message == IF gate = "rate"
                   THEN [kind |-> "rate", retryAfter |-> r.retryAfter]
                   ELSE Message(gate)
    IN
    /\ ~isSubmitting
    /\ LimiterCall(ClientId)
    /\ IF gate = "post"
       THEN /\ isSubmitting' = TRUE
            /\ submitError' = FALSE
            /\ submitSuccess' = FALSE
            /\ errorMessage' = NoMessage
            /\ inflight' = [pending |-> TRUE, token |-> turnstileToken]
       ELSE /\ errorMessage' = message
            /\ submitError' = TRUE
            /\ UNCHANGED <<isSubmitting, submitSuccess, inflight>>
    /\ lastSubmit' = [called |-> TRUE, at |-> now, allowed |-> r.allowed,
                      token |-> turnstileToken,
                      posted |-> inflight'.pending,
                      sent |-> inflight'.token,
                      error |-> IF gate = "post" THEN NoMessage ELSE message,
                      response |-> IF gate = "post" THEN "pending" ELSE "none",
                      previous |-> lastSubmit.response,
                      successBefore |-> submitSuccess]
    /\ UNCHANGED turnstileToken
    /\ UNCHANGED <<env, widgetVars, onErrorCalls>>

\* the 2xx path without setTurnstileToken(null)
PostOk_keepsToken ==
    /\ inflight.pending
    /\ submitSuccess' = TRUE
    /\ isSubmitting' = FALSE
    /\ inflight' = NoPost
    /\ lastSubmit' = [lastSubmit EXCEPT !.response = "ok"]
    /\ UNCHANGED <<submitError, errorMessage, turnstileToken>>
    /\ UNCHANGED <<env, limiterVars, widgetVars, onErrorCalls>>

\* the webhook answers 2xx: the rest of the try block, then finally
PostOk ==
    /\ inflight.pending
    /\ submitSuccess' = TRUE
    /\ turnstileToken' = NoToken
    /\ isSubmitting' = FALSE
    /\ inflight' = NoPost
    /\ lastSubmit' = [lastSubmit EXCEPT !.response = "ok"]
    /\ UNCHANGED <<submitError, errorMessage>>
    /\ UNCHANGED <<env, limiterVars, widgetVars, onErrorCalls>>

\* the catch block without the finally block: isSubmitting is not reset
PostFails_noFinally(cause) ==
    /\ inflight.pending
    /\ cause \in {"status", "network"}
    /\ errorMessage' = Message("generic")
    /\ submitError' = TRUE
    /\ inflight' = NoPost
    /\ lastSubmit' = [lastSubmit EXCEPT !.response = cause]
    /\ UNCHANGED <<isSubmitting, submitSuccess, turnstileToken>>
    /\ UNCHANGED <<env, limiterVars, widgetVars, onErrorCalls>>

\* the webhook answers non-2xx (onSubmit throws) or fetch rejects: the catch
\* block, then finally
PostFails(cause) ==
    /\ inflight.pending
    /\ cause \in {"status", "network"}
    /\ errorMessage' = Message("generic")
    /\ submitError' = TRUE
    /\ isSubmitting' = FALSE
    /\ inflight' = NoPost
    /\ lastSubmit' = [lastSubmit EXCEPT !.response = cause]
    /\ UNCHANGED <<submitSuccess, turnstileToken>>
    /\ UNCHANGED <<env, limiterVars, widgetVars, onErrorCalls>>

\* the form's Turnstile after its script has loaded: one instance, and with
\* a site key its script and the widget it rendered
InitFormWidget ==
    /\ status = [i \in Instances |-> IF i = 1 THEN "mounted" ELSE "unborn"]
    /\ containerRef = [i \in Instances |-> i = 1 /\ env.siteKey]
    /\ widgetIdRef = [i \in Instances |->
                        IF i = 1 /\ env.siteKey THEN 1 ELSE NoWidget]
    /\ effectScript = [i \in Instances |-> IF i = 1 /\ env.siteKey THEN 1 ELSE 0]
    /\ scripts = IF env.siteKey
                 THEN << [owner |-> 1, inHead |-> TRUE, state |-> "loaded",
                          ownerAtLoad |-> "mounted"] >>
                 ELSE << >>
    /\ windowTurnstile = env.siteKey
    /\ widgets = IF env.siteKey THEN << [owner |-> 1, script |-> 1] >> ELSE << >>
    /\ onErrorCalls = 0

InitForm ==
    /\ InitMap
    /\ env \in [siteKey : BOOLEAN, url : BOOLEAN, secret : BOOLEAN]
    /\ InitFormWidget
    /\ InitFormState

NextForm ==
    \/ Tick
    \/ OnSubmit
    \/ PostOk
    \/ \E cause \in {"status", "network"} : PostFails(cause)
    \/ \E w \in 1..MaxScripts, token \in Tokens : WidgetVerify(w, token)
    \/ \E w \in 1..MaxScripts : WidgetError(w)

SpecForm == InitForm /\ [][NextForm]_vars

InitLimiter ==
    /\ InitMap
    /\ env = [siteKey |-> TRUE, url |-> TRUE, secret |-> TRUE]
    /\ InitWidgets
    /\ InitFormState

InitWidget ==
    /\ InitMap
    /\ env \in [siteKey : BOOLEAN, url : {TRUE}, secret : {TRUE}]
    /\ InitWidgets
    /\ InitFormState

NextWidget ==
    \/ \E i \in Instances : Mount(i)
    \/ \E i \in Instances : EffectRerun(i)
    \/ \E i \in Instances : Unmount(i)
    \/ \E s \in 1..MaxScripts : ScriptLoad(s)
    \/ \E s \in 1..MaxScripts : ScriptError(s)
    \/ \E w \in 1..MaxScripts, token \in Tokens : WidgetVerify(w, token)
    \/ \E w \in 1..MaxScripts : WidgetError(w)

SpecWidget == InitWidget /\ [][NextWidget]_vars

SpecLimiter == InitLimiter /\ [][NextLimiter]_vars

\* ------------------------------------------------------------------------
\* Properties of the rate limiter
\* ------------------------------------------------------------------------
\* the last call was made by some identifier
Called == lastCheck.id # ""

\* the last call and the MAX_REQUESTS calls of the same identifier before it
\* all lie in one closed interval of WINDOW_MS: a window holding 4 calls
FourInOneWindow ==
    /\ lastCheck.third >= 0
    /\ lastCheck.at - lastCheck.third <= WINDOW_MS

\* the entry the last call found was live: present and not expired
FoundLive ==
    /\ lastCheck.before # NoEntry
    /\ lastCheck.at - lastCheck.before.firstRequest <= WINDOW_MS

\* C1: a call is allowed unless it is the 4th call of its identifier inside
\* one 60-second window (60000 ms, both ends included); so as long as every
\* 60-second window holds at most 3 calls of an identifier, all are allowed.
C1_WithinLimitAllowed ==
    (Called /\ ~FourInOneWindow) => lastCheck.allowed

\* C1 witness: a call exactly 60000 ms after the first call of the current
\* window, the third of that window, is allowed
C1_Witness ==
    /\ Called /\ lastCheck.allowed
    /\ lastCheck.before # NoEntry
    /\ lastCheck.at = lastCheck.before.firstRequest + WINDOW_MS
    /\ lastCheck.before.count = 2
    /\ ~FourInOneWindow

\* r is x / 1000 rounded up to the next integer
RoundedUp(r, x) == r * 1000 >= x /\ (r - 1) * 1000 < x

\* C2: a call that finds 3 requests already allowed in the live window is
\* rejected with retryAfter = the remaining window time in seconds, rounded
\* up; requests at 0, 1, 2, 3 s are allowed, allowed, allowed, rejected(57).
C2_FourthRejectedWithRetryAfter ==
    /\ (Called /\ FoundLive /\ lastCheck.before.count >= 3) =>
            /\ ~lastCheck.allowed
            /\ RoundedUp(lastCheck.retryAfter,
                         WINDOW_MS - (lastCheck.at - lastCheck.before.firstRequest))
    /\ \A id \in Identifiers :
          (lastCheck.id = id /\ lastCheck.at <= 3000 /\ sinceReset[id] \in 1..3)
              => lastCheck.allowed
    /\ \A id \in Identifiers :
          (/\ lastCheck.id = id /\ sinceReset[id] = 4
           /\ lastCheck.third = 0 /\ recent[id] = <<1000, 2000, 3000>>)
              => (~lastCheck.allowed /\ lastCheck.retryAfter = 57)

\* C2 witness: the 4th call of a window, 2.5 s after its first, is rejected
\* with retryAfter 58, and the scenario 0, 1, 2, 3 s is played
C2_Witness ==
    /\ lastCheck.id = "X" /\ ~lastCheck.allowed
    /\ sinceReset["X"] = 4
    /\ lastCheck.third = 0 /\ recent["X"] = <<1000, 2000, 3000>>
    /\ lastCheck.retryAfter = 57

\* C2 second case of the witness: a remainder that is not a whole second
C2_WitnessFraction ==
    /\ Called /\ ~lastCheck.allowed
    /\ lastCheck.at - lastCheck.before.firstRequest = 2500
    /\ lastCheck.retryAfter = 58

\* C3: a call made after the window has elapsed (61 s after its first
\* request, whatever happened inside it) is allowed and replaces the entry by
\* {count: 1, firstRequest: now}; the 2nd and 3rd calls of the new window
\* are allowed too.
C3_ResetAfterWindow ==
    /\ (/\ Called /\ lastCheck.before # NoEntry
        /\ lastCheck.at >= lastCheck.before.firstRequest + WINDOW_MS + 1000) =>
            /\ lastCheck.allowed
            /\ rateLimitMap[lastCheck.id] =
                    [count |-> 1, firstRequest |-> lastCheck.at]
    /\ (/\ Called /\ sinceReset[lastCheck.id] \in 2..3
        /\ lastCheck.at - rateLimitMap[lastCheck.id].firstRequest <= WINDOW_MS)
            => lastCheck.allowed

\* C3 witness: a window with 3 allowed requests is replaced exactly 61 s
\* after its first request
C3_Witness ==
    /\ Called /\ lastCheck.allowed
    /\ lastCheck.before.count = 3
    /\ lastCheck.at = lastCheck.before.firstRequest + 61000
    /\ rateLimitMap[lastCheck.id] = [count |-> 1, firstRequest |-> lastCheck.at]

\* C13: every stored entry has 1 <= count <= 3; an allowed call is one of
\* the first 3 calls since its identifier's entry was last replaced; an
\* entry changes only in a checkRateLimit call for its identifier that is
\* allowed, and a stored entry is never removed.
C13_EntryInvariant ==
    [][\A id \in Identifiers :
          /\ rateLimitMap'[id] # NoEntry =>
                rateLimitMap'[id].count \in 1..MAX_REQUESTS
          /\ (lastCheck'.id = id /\ lastCheck'.allowed) =>
                sinceReset'[id] \in 1..MAX_REQUESTS
          /\ rateLimitMap[id] # NoEntry => rateLimitMap'[id] # NoEntry
          /\ rateLimitMap'[id] # rateLimitMap[id] =>
                /\ lastCheck'.id = id
                /\ lastCheck'.at = now
                /\ lastCheck'.allowed
                /\ lastCheck'.before = rateLimitMap[id]]_vars

\* C13 witness: an entry that has reached count 3 turns a call down and
\* stays as it was, while the other identifier has its own entry
C13_Witness ==
    /\ lastCheck.id = "X" /\ ~lastCheck.allowed
    /\ rateLimitMap["X"].count = MAX_REQUESTS
    /\ rateLimitMap["X"] = lastCheck.before
    /\ sinceReset["X"] = MAX_REQUESTS + 1
    /\ rateLimitMap["Y"] # NoEntry

\* C14: a rejected call has retryAfter >= 1, and when the next call is by
\* the same identifier exactly retryAfter seconds later, it is allowed.
C14_RetryAfterHonoured ==
    [][/\ (lastCheck'.id # "" /\ ~lastCheck'.allowed) =>
              lastCheck'.retryAfter >= 1
       /\ (/\ lastCheck.id # "" /\ ~lastCheck.allowed
           /\ lastCheck' # lastCheck
           /\ lastCheck'.id = lastCheck.id
           /\ lastCheck'.at = lastCheck.at + lastCheck.retryAfter * 1000)
              => lastCheck'.allowed]_vars

\* ------------------------------------------------------------------------
\* Properties of the Turnstile component
\* ------------------------------------------------------------------------
\* the script elements that are in document.head
InHead == {s \in 1..Len(scripts) : scripts[s].inHead}

\* the window.turnstile.render calls made for instance i
RendersOf(i) == {w \in 1..Len(widgets) : widgets[w].owner = i}

\* C4: the Turnstile script is injected at most once per page lifetime, and
\* two instances mounted together share one script element.
C4_SingleInjection ==
    /\ Len(scripts) <= 1
    /\ (\A i \in Instances : status[i] = "mounted") => Cardinality(InHead) = 1

\* C5: an instance has window.turnstile.render called for it at most once
\* between its mount and its unmount, whatever load events and effect
\* re-runs occur.
C5_OneWidgetPerInstance ==
    \A i \in Instances : Cardinality(RendersOf(i)) <= 1

\* C6: a script whose load event fires after its instance was unmounted
\* renders nothing: no window.turnstile.render call comes from it.
C6_NoRenderAfterUnmount ==
    \A s \in 1..Len(scripts) :
        scripts[s].ownerAtLoad = "unmounted" =>
            ~(\E w \in 1..Len(widgets) : widgets[w].script = s)

\* C6 witness: the load event of a script has fired after the unmount of
\* the instance that created it
C6_Witness ==
    \E s \in 1..Len(scripts) :
        /\ scripts[s].state = "loaded"
        /\ scripts[s].ownerAtLoad = "unmounted"
        /\ status[scripts[s].owner] = "unmounted"

\* C10: a step in which a pending script fails to load invokes onError
\* exactly once.
C10_ScriptErrorReported ==
    [][(\E s \in 1..Len(scripts) :
            scripts[s].state = "pending" /\ scripts'[s].state = "failed")
        => onErrorCalls' = onErrorCalls + 1]_vars

\* the handles of instance i that are outstanding: the component calls
\* window.turnstile.render only, no handle is ever given back
Outstanding(i) == RendersOf(i)

\* C11: once an instance is unmounted its widgetIdRef is cleared and none
\* of its widget handles is outstanding.
C11_ReleasedOnUnmount ==
    \A i \in Instances :
        status[i] = "unmounted" =>
            (widgetIdRef[i] = NoWidget /\ Outstanding(i) = {})

\* ------------------------------------------------------------------------
\* Properties of onSubmit
\* ------------------------------------------------------------------------
\* the last submit was made with a token required and none stored
NeededToken == env.siteKey /\ lastSubmit.token = NoToken

\* the first half of C7: with no site key, a submit within the rate limit
\* and with webhook configuration is posted, without a token
PostsWithoutSiteKey ==
    (/\ lastSubmit.called /\ ~env.siteKey
     /\ lastSubmit.allowed /\ env.url /\ env.secret)
        => (lastSubmit.posted /\ lastSubmit.sent = NoToken)

\* C7 as stated: ... and with a site key and no token, every submit is
\* blocked with the verification-incomplete error and sends no POST.
C7_Original ==
    /\ PostsWithoutSiteKey
    /\ (lastSubmit.called /\ NeededToken) =>
            (lastSubmit.error.kind = "verification" /\ ~lastSubmit.posted)

\* C7 amended: ... and with a site key and no token, a submit sends no POST
\* and, when the rate limiter allowed it, reports the
\* verification-incomplete error.
C7_TokenGate ==
    /\ PostsWithoutSiteKey
    /\ (lastSubmit.called /\ NeededToken) => ~lastSubmit.posted
    /\ (lastSubmit.called /\ NeededToken /\ lastSubmit.allowed) =>
            lastSubmit.error.kind = "verification"

\* C7 witness: a submit within the limit, token required and absent
C7_Witness ==
    /\ lastSubmit.called /\ NeededToken /\ lastSubmit.allowed
    /\ lastSubmit.error.kind = "verification"
    /\ ~lastSubmit.posted /\ ~inflight.pending

\* C7, the other case reached: no site key, posted without a token
C7_WitnessNoSiteKey ==
    /\ lastSubmit.called /\ ~env.siteKey
    /\ lastSubmit.posted /\ lastSubmit.sent = NoToken

\* the webhook URL or the webhook secret is not configured
ConfigAbsent == ~env.url \/ ~env.secret

\* C8 as stated: without webhook URL or secret every submit sends no POST,
\* sets the configuration error message and leaves isSubmitting false.
C8_Original ==
    (ConfigAbsent /\ lastSubmit.called) =>
        /\ ~lastSubmit.posted
        /\ lastSubmit.error.kind = "config"
        /\ submitError
        /\ ~isSubmitting

\* C8 amended: without webhook URL or secret no POST is ever sent and
\* isSubmitting stays false; every submit sets submitError with a message,
\* which is the configuration error message when the submit passed the rate
\* limiter and the token check.
C8_ConfigGate ==
    ConfigAbsent =>
        /\ ~inflight.pending
        /\ ~isSubmitting
        /\ lastSubmit.called =>
              /\ ~lastSubmit.posted
              /\ submitError
              /\ lastSubmit.error.kind # "none"
              /\ (lastSubmit.allowed /\ ~NeededToken)
                    => lastSubmit.error.kind = "config"

\* C8 witness: a submit stopped by the configuration check alone (the
\* secret is missing, the URL is not)
C8_Witness ==
    /\ lastSubmit.called /\ env.url /\ ~env.secret
    /\ lastSubmit.allowed /\ ~NeededToken
    /\ lastSubmit.error.kind = "config"
    /\ submitError /\ ~isSubmitting

\* C9: every submit consults the rate limiter; a submit the limiter rejects
\* reports the rate-limit error (also when its token is missing) and sends
\* no POST; the token error is reported only for a submit the limiter
\* allowed; a POST is sent only when both gates passed.
C9_GateOrder ==
    lastSubmit.called =>
        /\ lastCheck.id = ClientId
        /\ lastCheck.at = lastSubmit.at
        /\ lastCheck.allowed = lastSubmit.allowed
        /\ ~lastSubmit.allowed =>
              (lastSubmit.error.kind = "rate" /\ ~lastSubmit.posted)
        /\ lastSubmit.error.kind = "verification" => lastSubmit.allowed
        /\ lastSubmit.posted => (lastSubmit.allowed /\ ~NeededToken)

\* C9 witness: a submit over the limit and without its token reports the
\* rate-limit error
C9_Witness ==
    /\ lastSubmit.called /\ ~lastSubmit.allowed /\ NeededToken
    /\ lastSubmit.error.kind = "rate"
    /\ ~lastSubmit.posted

\* the last submit failed: an early return with a message, or a POST that
\* got a non-2xx answer or no answer
StoppedEarly == lastSubmit.called /\ lastSubmit.error.kind # "none"

PostFailed == lastSubmit.called /\ lastSubmit.response \in {"status", "network"}

\* C12: after every failing outcome of onSubmit (rate limited, verification
\* incomplete, configuration error, non-2xx answer, network failure)
\* submitError is true with a message, isSubmitting is false, no fetch is
\* awaited, and submitSuccess was not set by that submit.
C12_FailuresSurface ==
    /\ (StoppedEarly \/ PostFailed) =>
            /\ submitError
            /\ errorMessage # NoMessage
            /\ ~isSubmitting
            /\ ~inflight.pending
    /\ StoppedEarly =>
            /\ lastSubmit.error.kind \in {"rate", "verification", "config"}
            /\ submitSuccess = lastSubmit.successBefore
    /\ PostFailed => ~submitSuccess

\* C12 witness: a POST failed on the network after an earlier success
C12_Witness ==
    /\ PostFailed /\ lastSubmit.response = "network"
    /\ lastSubmit.previous = "ok"
    /\ submitError /\ errorMessage = Message("generic")
    /\ ~isSubmitting /\ ~submitSuccess

\* C12, another case reached: an early return after a success keeps the
\* success flag it found
C12_WitnessEarly ==
    /\ StoppedEarly /\ lastSubmit.successBefore /\ submitSuccess
    /\ submitError /\ ~isSubmitting

\* the last submit passed the limiter and was stopped by the token check or
\* by the configuration check
BlockedAfterLimiter ==
    lastSubmit.called /\ lastSubmit.allowed /\ ~lastSubmit.posted

\* the entry of the client after a call at time t that found entry b and
\* was counted
Counted(b, t) ==
    IF b # NoEntry /\ t - b.firstRequest <= WINDOW_MS
    THEN [count |-> b.count + 1, firstRequest |-> b.firstRequest]
    ELSE [count |-> 1, firstRequest |-> t]

\* C15 as stated: a submit blocked by the token check or by the
\* configuration check leaves the client's rate-limit entry as it found it.
C15_Original ==
    BlockedAfterLimiter => rateLimitMap[ClientId] = lastCheck.before

\* C15 amended: every submit the limiter allows is counted, posted or not,
\* and a submit the limiter rejects leaves the entry unchanged; so the 4th
\* submit since the start of a window is rejected also when the 3 before
\* it were blocked.
C15_EverySubmitCounts ==
    lastSubmit.called =>
        /\ lastSubmit.allowed =>
              rateLimitMap[ClientId] = Counted(lastCheck.before, lastSubmit.at)
        /\ ~lastSubmit.allowed => rateLimitMap[ClientId] = lastCheck.before
        /\ sinceReset[ClientId] = MAX_REQUESTS + 1 => ~lastSubmit.allowed

\* C15 witness: no submit can be posted (the webhook secret is missing),
\* and the 4th submit of the window is rate limited
C15_Witness ==
    /\ lastSubmit.called /\ env.url /\ ~env.secret
    /\ sinceReset[ClientId] = MAX_REQUESTS + 1
    /\ ~lastSubmit.allowed
    /\ lastSubmit.error.kind = "rate"
    /\ rateLimitMap[ClientId].count = MAX_REQUESTS

\* the step in which the awaited POST is answered 2xx
PostOkStep ==
    lastSubmit.response = "pending" /\ lastSubmit'.response = "ok"

\* the step in which the awaited POST fails
PostFailStep ==
    lastSubmit.response = "pending"
        /\ lastSubmit'.response \in {"status", "network"}

\* the last submit came after a 2xx answer, with a site key and no token
\* delivered since
AfterSuccessNoToken ==
    /\ lastSubmit.called /\ env.siteKey
    /\ lastSubmit.previous = "ok" /\ lastSubmit.token = NoToken

\* the last submit is a retry after a failed POST, with a site key
RetryAfterFailure ==
    /\ lastSubmit.called /\ env.siteKey
    /\ lastSubmit.previous \in {"status", "network"}

\* what C16 says of every submit: a POST carries the stored token; after a
\* 2xx answer a submit without a new token is blocked as
\* verification-incomplete; a retry after a failed POST still has a token
\* and sends it
SubmitsAsStated ==
    /\ lastSubmit.posted => lastSubmit.sent = lastSubmit.token
    /\ AfterSuccessNoToken =>
            (~lastSubmit.posted /\ lastSubmit.error.kind = "verification")
    /\ RetryAfterFailure =>
            /\ lastSubmit.token # NoToken
            /\ lastSubmit.posted
            /\ lastSubmit.sent = lastSubmit.token

\* the same, with the rate limiter in front of the token check
SubmitsAsAmended ==
    /\ lastSubmit.posted => lastSubmit.sent = lastSubmit.token
    /\ AfterSuccessNoToken =>
            /\ ~lastSubmit.posted
            /\ lastSubmit.allowed => lastSubmit.error.kind = "verification"
            /\ ~lastSubmit.allowed => lastSubmit.error.kind = "rate"
    /\ RetryAfterFailure =>
            /\ lastSubmit.token # NoToken
            /\ lastSubmit.posted = lastSubmit.allowed
            /\ lastSubmit.posted => lastSubmit.sent = lastSubmit.token

\* C16 as stated: a 2xx answer clears the stored token, so the next submit
\* is blocked as verification-incomplete until a new token is delivered; a
\* failed POST keeps the token, and the retry sends it again.
C16_Original ==
    [][/\ PostOkStep => turnstileToken' = NoToken
       /\ PostFailStep => turnstileToken' = turnstileToken
       /\ SubmitsAsStated']_vars

\* C16 amended: a 2xx answer clears the stored token, so no later submit
\* is posted until a new token is delivered: it is blocked as
\* verification-incomplete, or as rate limited when it is over the limit; a
\* failed POST keeps the token, and a retry that the limiter allows sends
\* it again.
C16_TokenLifecycle ==
    [][/\ PostOkStep => turnstileToken' = NoToken
       /\ PostFailStep => turnstileToken' = turnstileToken
       /\ SubmitsAsAmended']_vars

\* C16 witness: the submit made after a 2xx answer without a new token is
\* blocked as verification-incomplete
C16_Witness ==
    /\ AfterSuccessNoToken /\ lastSubmit.allowed
    /\ lastSubmit.error.kind = "verification"
    /\ ~lastSubmit.posted /\ turnstileToken = NoToken

\* C16, another case reached: a retry after a failed POST sends the token
\* the failed POST carried
C16_WitnessRetry ==
    /\ RetryAfterFailure /\ lastSubmit.posted
    /\ lastSubmit.sent # NoToken /\ inflight.token = lastSubmit.sent

====
